---- MODULE Spec2Model ----
(***************************************************************************)
(* Emotive voice orchestration of conversational-reflection.              *)
(*                                                                         *)
(* Two processes are modelled, each from its source:                       *)
(*   - the browser hook usePipecatSync (ginger_rp/src/hooks), whose       *)
(*     handlers react to the transport's RTVI events and drive the         *)
(*     pipecat, ginger and conversation stores;                            *)
(*   - the backend frame processor EmotiveTTSProcessor.process_frame       *)
(*     (docs/plans/roleplay-coaching-prd.md), which fetches the emotional  *)
(*     state once per LLM response and pushes it to the synthesizer.       *)
(* The two share no state.  A behaviour follows one of them: `side` is      *)
(* fixed by Init and selects the process whose steps are taken.  The       *)
(* directive functions (generate_elevenlabs_config, the voice modulation), *)
(* two processors side by side, the voice profiles, the hook's effect,    *)
(* the /api/offer route of the frontend (ginger_rp/next.config.js) and the *)
(* development script dev.sh are followed by specifications of their own.  *)
(***************************************************************************)
EXTENDS Integers, Sequences, FiniteSets, TLC

(* ------------------------------ bounds -------------------------------- *)
\* longest text (a chunk, a buffer) the model builds
MaxLen == 2
\* most messages a store's list holds
MaxHist == 2
\* cap of the per-utterance counters
MaxCount == 2

(* ------------------------------- text --------------------------------- *)
\* characters of the modelled texts: a letter and a blank
Chars == {"a", " "}

\* every text of at most n characters
Texts(n) == UNION {[1..k -> Chars] : k \in 0..n}

Chunks == {<<>>, <<"a">>, <<" ">>, <<" ", "a">>}

IsSpace(c) == c = " "

RECURSIVE TrimStart(_)
TrimStart(s) ==
    IF s = <<>> THEN <<>>
    ELSE IF IsSpace(Head(s)) THEN TrimStart(Tail(s)) ELSE s

RECURSIVE TrimEnd(_)
TrimEnd(s) ==
    IF s = <<>> THEN <<>>
    ELSE IF IsSpace(s[Len(s)]) THEN TrimEnd(SubSeq(s, 1, Len(s) - 1)) ELSE s

\* String.prototype.trim
trim(s) == TrimEnd(TrimStart(s))

\* JavaScript truthiness of a string: the empty string is falsy
Truthy(s) == s # <<>>

Blank(s) == \A i \in 1..Len(s) : IsSpace(s[i])

VARIABLES
    side,                  \* the process this behaviour follows
    ended,                 \* the session is over: the peer disconnected
    \* ---- usePipecatStore / useGingerStore / useConversationStore ----
    isUserSpeaking,
    isBotSpeaking,
    currentUserUtterance,
    currentBotUtterance,
    voiceState,            \* useGingerStore.voiceState
    conversation,          \* useConversationStore messages: the history
    gingerMessages,        \* useGingerStore messages
    \* ---- observation of the hook ----
    lastEvent,             \* the handler that ran last
    prevPhase,             \* the phase that handler found
    utterance,             \* the local `utterance` the last stop handler read
    afterStart,            \* a BotStartedSpeaking was handled and no BotStoppedSpeaking since
    sinceStart,            \* the chunks received since that BotStartedSpeaking
    restarted,             \* that BotStartedSpeaking came while the bot was speaking, text in the
                           \* buffer; forgotten by the user's events and outside a bot utterance
    overwrote,             \* the UserTranscript just handled found another text in the buffer
    \* ---- EmotiveTTSProcessor ----
    in_llm_response,
    emotion_applied_for_utterance,
    last_emotion,
    use_ssml,              \* constructor option
    update_tts_config,     \* TRUE when the callback was provided
    log_emotions,          \* constructor option
    pc,                    \* where process_frame is suspended: "idle" between frames
    frame,                 \* the frame process_frame holds
    state,                 \* the local `state` of process_frame
    tts_config,            \* what the synthesizer was last configured from
    \* ---- observation of the processor ----
    inUtterance,           \* between a response start and its end
    computes,              \* directive computations since the response start
    configs,               \* update_tts_config calls that ended since the response start
    forwarded,             \* text frames of the response pushed on for synthesis
    pushed,                \* the frame push_frame sent last
    \* ---- the call of a directive function followed on side "mapper" ----
    voice_profile,         \* the voice the settings are generated for
    level,                 \* the local `intensity_level` of the call
    presets,               \* the dict `emotion_presets` as the last call left it
    modulation,            \* the speed and volume ratios chosen for the snapshot
    again,                 \* the last call had the snapshot of the call before it
    \* ---- two processors, each in the pipeline of its own session (side "sessions") ----
    procs,                 \* the fields of the processor of each session
    alone,                 \* the fields each processor has when only its own session runs
    \* ---- the voice profiles (side "registry") ----
    registry,              \* the profile stored for each contact that has one
    got,                   \* what the last getVoiceProfile returned
    op,                    \* the last operation and the contact it named
    \* ---- the listener effect of usePipecatSync (side "hook") ----
    mounted,               \* the component calling the hook is mounted
    client,                \* usePipecat() has a client
    listeners,             \* per RTVI event, the handlers of the hook the client holds
    frozen,                \* the stores as the last unmount left them
    \* ---- the /api/offer route of the frontend (side "proxy") ----
    handlers,              \* per request, where its POST or PATCH handler stands
    \* ---- the development script dev.sh (side "dev") ----
    pidfile,               \* per service, the PID its .pid file holds
    spawned,               \* the processes the script started, by PID
    script                 \* where a running start or restart command sleeps

hookVars == <<isUserSpeaking, isBotSpeaking, currentUserUtterance, currentBotUtterance,
              voiceState, conversation, gingerMessages, lastEvent, prevPhase, utterance,
              afterStart, sinceStart, restarted, overwrote>>

procVars == <<in_llm_response, emotion_applied_for_utterance, last_emotion, use_ssml,
              update_tts_config, log_emotions, pc, frame, state, tts_config,
              inUtterance, computes, configs, forwarded, pushed>>

mapperVars == <<voice_profile, level, presets, modulation, again>>

sessionVars == <<procs, alone>>

registryVars == <<registry, got, op>>

effectVars == <<mounted, client, listeners, frozen>>

proxyVars == <<handlers>>

devVars == <<pidfile, spawned, script>>

vars == <<side, ended, hookVars, procVars, mapperVars, sessionVars, registryVars, effectVars,
          proxyVars, devVars>>

None == "none"

(* ----------------------- the stores (not in src) ---------------------- *)
setUserSpeaking(b) == b
setBotSpeaking(b) == b
\* user transcripts replace the buffer (last write wins)
updateCurrentUserUtterance(cur, text) == text
\* bot text is appended to the buffer
updateCurrentBotUtterance(cur, text) == cur \o text
resetCurrentBotUtterance(cur) == <<>>
finalizeUserUtterance(cur) == <<>>
finalizeBotUtterance(cur) == <<>>
addMessage(list, m) == Append(list, m)

(* -------------------------- usePipecatSync ---------------------------- *)
\* the phase the hook's state stands for
phase ==
    IF isBotSpeaking THEN "botSpeaking"
    ELSE IF voiceState = "listening" THEN "userSpeaking"
    ELSE IF voiceState = "processing" THEN "processing"
    ELSE "idle"

\* the guard without the trim: a buffer of blanks counts as text
hasText_Untrimmed(u) == Truthy(u)

\* lines 81, 103: if (utterance.trim())
hasText(u) == Truthy(trim(u))

\* lines 83-87: the message of a user turn
userMessage(u) == [role |-> "user", content |-> trim(u)]

\* lines 106-110, 112-115: the message of a bot turn
botMessage(u) == [role |-> "assistant", content |-> trim(u)]

handleUserStartedSpeaking ==
    /\ isUserSpeaking' = setUserSpeaking(TRUE)
    /\ voiceState' = "listening"
    /\ lastEvent' = "UserStartedSpeaking"
    /\ overwrote' = FALSE
    /\ UNCHANGED <<isBotSpeaking, currentUserUtterance, currentBotUtterance,
                   conversation, gingerMessages, afterStart, sinceStart>>
    /\ restarted' = FALSE
    /\ utterance' = <<>>

\* the stop handler without its finalizeUserUtterance() call
handleUserStoppedSpeaking_NoFinalize ==
    /\ utterance' = currentUserUtterance
    /\ IF hasText(utterance')
       THEN /\ Len(conversation) < MaxHist
            /\ conversation' = addMessage(conversation, userMessage(utterance'))
       ELSE conversation' = conversation
    /\ isUserSpeaking' = setUserSpeaking(FALSE)
    /\ currentUserUtterance' = currentUserUtterance
    /\ voiceState' = "processing"
    /\ lastEvent' = "UserStoppedSpeaking"
    /\ overwrote' = FALSE
    /\ UNCHANGED <<isBotSpeaking, currentBotUtterance, gingerMessages, afterStart, sinceStart>>
    /\ restarted' = FALSE

handleUserStoppedSpeaking ==
    /\ utterance' = currentUserUtterance
    /\ IF hasText(utterance')
       THEN /\ Len(conversation) < MaxHist
            /\ conversation' = addMessage(conversation, userMessage(utterance'))
       ELSE conversation' = conversation
    /\ isUserSpeaking' = setUserSpeaking(FALSE)
    /\ currentUserUtterance' = finalizeUserUtterance(currentUserUtterance)
    /\ voiceState' = "processing"
    /\ lastEvent' = "UserStoppedSpeaking"
    /\ overwrote' = FALSE
    /\ UNCHANGED <<isBotSpeaking, currentBotUtterance, gingerMessages, afterStart, sinceStart>>
    /\ restarted' = FALSE

\* the start handler without its resetCurrentBotUtterance() call
handleBotStartedSpeaking_NoReset ==
    /\ currentBotUtterance' = currentBotUtterance
    /\ isBotSpeaking' = setBotSpeaking(TRUE)
    /\ afterStart' = TRUE
    /\ restarted' = (isBotSpeaking /\ currentBotUtterance # <<>>)
    /\ sinceStart' = <<>>
    /\ lastEvent' = "BotStartedSpeaking"
    /\ overwrote' = FALSE
    /\ UNCHANGED <<isUserSpeaking, currentUserUtterance, voiceState,
                   conversation, gingerMessages>>
    /\ utterance' = <<>>

\* the start handler without its setBotSpeaking(true) call
handleBotStartedSpeaking_NoFlag ==
    /\ currentBotUtterance' = resetCurrentBotUtterance(currentBotUtterance)
    /\ isBotSpeaking' = isBotSpeaking
    /\ afterStart' = TRUE
    /\ restarted' = (isBotSpeaking /\ currentBotUtterance # <<>>)
    /\ sinceStart' = <<>>
    /\ lastEvent' = "BotStartedSpeaking"
    /\ overwrote' = FALSE
    /\ UNCHANGED <<isUserSpeaking, currentUserUtterance, voiceState,
                   conversation, gingerMessages>>
    /\ utterance' = <<>>

handleBotStartedSpeaking ==
    /\ currentBotUtterance' = resetCurrentBotUtterance(currentBotUtterance)
    /\ isBotSpeaking' = setBotSpeaking(TRUE)
    /\ afterStart' = TRUE
    /\ restarted' = (isBotSpeaking /\ currentBotUtterance # <<>>)
    /\ sinceStart' = <<>>
    /\ lastEvent' = "BotStartedSpeaking"
    /\ overwrote' = FALSE
    /\ UNCHANGED <<isUserSpeaking, currentUserUtterance, voiceState,
                   conversation, gingerMessages>>
    /\ utterance' = <<>>

\* the stop handler without its setVoiceState('idle') call
handleBotStoppedSpeaking_NoIdle ==
    /\ utterance' = currentBotUtterance
    /\ IF hasText(utterance')
       THEN /\ Len(conversation) < MaxHist
            /\ conversation' = addMessage(conversation, botMessage(utterance'))
            /\ gingerMessages' = addMessage(gingerMessages, botMessage(utterance'))
       ELSE UNCHANGED <<conversation, gingerMessages>>
    /\ isBotSpeaking' = setBotSpeaking(FALSE)
    /\ currentBotUtterance' = finalizeBotUtterance(currentBotUtterance)
    /\ voiceState' = voiceState
    /\ afterStart' = FALSE
    /\ sinceStart' = <<>>
    /\ restarted' = restarted
    /\ lastEvent' = "BotStoppedSpeaking"
    /\ overwrote' = FALSE
    /\ UNCHANGED <<isUserSpeaking, currentUserUtterance>>

handleBotStoppedSpeaking ==
    /\ utterance' = currentBotUtterance
    /\ IF hasText(utterance')
       THEN /\ Len(conversation) < MaxHist
            /\ conversation' = addMessage(conversation, botMessage(utterance'))
            /\ gingerMessages' = addMessage(gingerMessages, botMessage(utterance'))
       ELSE UNCHANGED <<conversation, gingerMessages>>
    /\ isBotSpeaking' = setBotSpeaking(FALSE)
    /\ currentBotUtterance' = finalizeBotUtterance(currentBotUtterance)
    /\ voiceState' = "idle"
    /\ afterStart' = FALSE
    /\ sinceStart' = <<>>
    /\ restarted' = restarted
    /\ lastEvent' = "BotStoppedSpeaking"
    /\ overwrote' = FALSE
    /\ UNCHANGED <<isUserSpeaking, currentUserUtterance>>

\* the transcript handler calling the appending update of the bot text
handleUserTranscript_Append(text) ==
    /\ Len(currentUserUtterance) + Len(text) <= MaxLen
    /\ currentUserUtterance' = updateCurrentBotUtterance(currentUserUtterance, text)
    /\ lastEvent' = "UserTranscript"
    /\ overwrote' = (currentUserUtterance # <<>> /\ text # currentUserUtterance)
    /\ UNCHANGED <<isUserSpeaking, isBotSpeaking, currentBotUtterance, voiceState,
                   conversation, gingerMessages, afterStart, sinceStart>>
    /\ restarted' = FALSE
    /\ utterance' = <<>>

handleUserTranscript(text) ==
    /\ currentUserUtterance' = updateCurrentUserUtterance(currentUserUtterance, text)
    /\ lastEvent' = "UserTranscript"
    /\ overwrote' = (currentUserUtterance # <<>> /\ text # currentUserUtterance)
    /\ UNCHANGED <<isUserSpeaking, isBotSpeaking, currentBotUtterance, voiceState,
                   conversation, gingerMessages, afterStart, sinceStart>>
    /\ restarted' = FALSE
    /\ utterance' = <<>>

\* the transcript handler appending its text to the bot buffer
handleBotTranscript_Appends(text) ==
    /\ Len(currentBotUtterance) + Len(text) <= MaxLen
    /\ currentBotUtterance' = updateCurrentBotUtterance(currentBotUtterance, text)
    /\ lastEvent' = "BotTranscript"
    /\ overwrote' = FALSE
    /\ UNCHANGED <<isUserSpeaking, isBotSpeaking, currentUserUtterance,
                   voiceState, conversation, gingerMessages, afterStart, sinceStart>>
    /\ restarted' = FALSE
    /\ utterance' = <<>>

handleBotTranscript(text) ==
    /\ lastEvent' = "BotTranscript"
    /\ overwrote' = FALSE
    /\ UNCHANGED <<isUserSpeaking, isBotSpeaking, currentUserUtterance,
                   currentBotUtterance, voiceState, conversation, gingerMessages,
                   afterStart, sinceStart>>
    /\ restarted' = FALSE
    /\ utterance' = <<>>

\* the LLM text handler calling the replacing update of the user transcript
handleBotLlmText_Replace(text) ==
    /\ Len(currentBotUtterance) + Len(text) <= MaxLen
    /\ currentBotUtterance' = updateCurrentUserUtterance(currentBotUtterance, text)
    /\ sinceStart' = IF afterStart THEN sinceStart \o text ELSE sinceStart
    /\ afterStart' = afterStart
    /\ restarted' = (afterStart /\ restarted)
    /\ lastEvent' = "BotLlmText"
    /\ overwrote' = FALSE
    /\ UNCHANGED <<isUserSpeaking, isBotSpeaking, currentUserUtterance, voiceState,
                   conversation, gingerMessages>>
    /\ utterance' = <<>>

handleBotLlmText(text) ==
    /\ Len(currentBotUtterance) + Len(text) <= MaxLen
    /\ currentBotUtterance' = updateCurrentBotUtterance(currentBotUtterance, text)
    /\ sinceStart' = IF afterStart THEN sinceStart \o text ELSE sinceStart
    /\ afterStart' = afterStart
    /\ restarted' = (afterStart /\ restarted)
    /\ lastEvent' = "BotLlmText"
    /\ overwrote' = FALSE
    /\ UNCHANGED <<isUserSpeaking, isBotSpeaking, currentUserUtterance, voiceState,
                   conversation, gingerMessages>>
    /\ utterance' = <<>>

ClientInit ==
    /\ isUserSpeaking = FALSE
    /\ isBotSpeaking = FALSE
    /\ currentUserUtterance = <<>>
    /\ currentBotUtterance = <<>>
    /\ voiceState = "idle"
    /\ conversation = <<>>
    /\ gingerMessages = <<>>
    /\ lastEvent = None
    /\ prevPhase = None
    /\ utterance = <<>>
    /\ afterStart = FALSE
    /\ sinceStart = <<>>
    /\ restarted = FALSE
    /\ overwrote = FALSE

\* client.on(RTVIEvent.X, handleX): the transport delivers an event to its handler
Client(handler) ==
    /\ side \in {"client", "hook"}
    /\ handler
    /\ listeners[lastEvent'] >= 1
    /\ prevPhase' = phase
    /\ UNCHANGED <<side, ended, procVars, mapperVars, sessionVars, registryVars, effectVars,
                   proxyVars, devVars>>

UserStartedSpeaking == Client(handleUserStartedSpeaking)
UserStoppedSpeaking == Client(handleUserStoppedSpeaking)
BotStartedSpeaking == Client(handleBotStartedSpeaking)
BotStoppedSpeaking == Client(handleBotStoppedSpeaking)
UserTranscript == \E text \in Chunks : Client(handleUserTranscript(text))
BotTranscript == \E text \in Chunks : Client(handleBotTranscript(text))
BotLlmText == \E text \in Chunks : Client(handleBotLlmText(text))

(* ----------------------- EmotiveTTSProcessor -------------------------- *)
PrimaryEmotion == {"joy", "sadness", "anger", "fear", "disgust", "surprise", "neutral"}

\* state.body_state is None: the snapshot carries no body state
NoEnergy == -1

\* an EmotiveVoiceState: intensity in ten-thousandths, the energy and the tension
\* of body_state in hundredths
Snapshot(primary_emotion, intensity, energy, tension) ==
    [primary_emotion |-> primary_emotion, intensity |-> intensity,
     energy |-> energy, tension |-> tension]

\* snapshots the emotional-state source answers with
SourceStates == {Snapshot("joy", 7000, NoEnergy, NoEnergy),
                 Snapshot("sadness", 3500, NoEnergy, NoEnergy)}

NeutralState == Snapshot("neutral", 0, NoEnergy, NoEnergy)

NoState == Snapshot(None, 0, NoEnergy, NoEnergy)

\* the source's answer taken as it comes, no neutral snapshot in its place
get_current_state_NoFallback(available, snapshot) == snapshot

\* _get_current_state (not in src): the source's snapshot, the neutral one without it
get_current_state(available, snapshot) == IF available THEN snapshot ELSE NeutralState

\* generate_ssml_prefix (not in src): a tag for an emotion, nothing for neutral
generate_ssml_prefix(st, ssml) ==
    IF ssml /\ st.primary_emotion # "neutral" THEN st.primary_emotion ELSE ""

(* --------------------- generate_elevenlabs_config --------------------- *)
\* the thresholds taken as closed above: 0.35 is low, 0.7 is medium
intensity_level_Closed(st) ==
    IF st.intensity <= 3500 THEN "low"
    ELSE IF st.intensity <= 7000 THEN "medium"
    ELSE "high"

\* lines 601-607: the intensity preset of a snapshot
intensity_level(st) ==
    IF st.intensity < 3500 THEN "low"
    ELSE IF st.intensity < 7000 THEN "medium"
    ELSE "high"

\* a voice_settings dict, its numbers in thousandths
Settings(stability, similarity_boost, style, use_speaker_boost) ==
    [stability |-> stability, similarity_boost |-> similarity_boost,
     style |-> style, use_speaker_boost |-> use_speaker_boost]

\* lines 613-615, 618-620, ...: the three presets written under an emotion
preset_rows(e) ==
    CASE e = "joy" ->
          [low    |-> Settings(500, 750, 300, FALSE),
           medium |-> Settings(300, 750, 600, TRUE),
           high   |-> Settings(200, 700, 800, TRUE)]
      [] e = "sadness" ->
          [low    |-> Settings(600, 800, 200, FALSE),
           medium |-> Settings(700, 800, 300, FALSE),
           high   |-> Settings(800, 850, 400, FALSE)]
      [] e = "anger" ->
          [low    |-> Settings(400, 750, 500, TRUE),
           medium |-> Settings(200, 700, 800, TRUE),
           high   |-> Settings(100, 650, 900, TRUE)]
      [] e = "fear" ->
          [low    |-> Settings(500, 750, 400, FALSE),
           medium |-> Settings(400, 750, 500, TRUE),
           high   |-> Settings(300, 700, 600, TRUE)]
      [] e = "disgust" ->
          [low    |-> Settings(600, 800, 300, FALSE),
           medium |-> Settings(500, 800, 400, FALSE),
           high   |-> Settings(400, 750, 500, FALSE)]
      [] e = "surprise" ->
          [low    |-> Settings(400, 750, 500, TRUE),
           medium |-> Settings(300, 700, 700, TRUE),
           high   |-> Settings(200, 650, 800, TRUE)]
      [] OTHER ->
          [low    |-> Settings(500, 750, 0, FALSE),
           medium |-> Settings(500, 750, 0, FALSE),
           high   |-> Settings(500, 750, 0, FALSE)]

\* the dict written without the entry of surprise
emotion_presets_NoSurprise ==
    [e \in PrimaryEmotion \ {"surprise"} |-> preset_rows(e)]

\* lines 612, 617, 622, 627, 632, 637, 642: the keys of the dict
PresetKeys == {"joy", "sadness", "anger", "fear", "disgust", "surprise", "neutral"}

\* lines 611-648
emotion_presets == [e \in PresetKeys |-> preset_rows(e)]

\* dict.get(key, default)
get(table, key, default) == IF key \in DOMAIN table THEN table[key] ELSE default

Min(a, b) == IF a < b THEN a ELSE b

\* the high-energy factor applied without the min(1.0, ...)
body_modifiers_NoClamp(preset, st) ==
    IF st.energy = NoEnergy THEN preset
    ELSE IF st.energy > 70
         THEN [preset EXCEPT !.style = (preset.style * 12) \div 10]
    ELSE IF st.energy < 30
         THEN [preset EXCEPT !.style = (preset.style * 7) \div 10]
    ELSE preset

\* the thresholds taken as closed: an energy of 0.7 is high, one of 0.3 is low
body_modifiers_Closed(preset, st) ==
    IF st.energy = NoEnergy THEN preset
    ELSE IF st.energy >= 70
         THEN [preset EXCEPT !.style = Min(1000, (preset.style * 12) \div 10)]
    ELSE IF st.energy <= 30
         THEN [preset EXCEPT !.style = (preset.style * 7) \div 10]
    ELSE preset

\* the energy added to the style instead of scaling it
body_modifiers_Additive(preset, st) ==
    IF st.energy = NoEnergy THEN preset
    ELSE IF st.energy > 70
         THEN [preset EXCEPT !.style = Min(1000, preset.style + 200)]
    ELSE IF st.energy < 30
         THEN [preset EXCEPT !.style = (preset.style * 7) \div 10]
    ELSE preset

\* lines 655-662: the energy of the body state scales the style
body_modifiers(preset, st) ==
    IF st.energy = NoEnergy THEN preset
    ELSE IF st.energy > 70
         THEN [preset EXCEPT !.style = Min(1000, (preset.style * 12) \div 10)]
    ELSE IF st.energy < 30
         THEN [preset EXCEPT !.style = (preset.style * 7) \div 10]
    ELSE preset

\* lines 592-665
generate_elevenlabs_config(st) ==
    LET preset == get(emotion_presets, st.primary_emotion,
                      emotion_presets["neutral"])[intensity_level(st)]
    IN  body_modifiers(preset, st)

\* the speed and volume ratios of the SSML tags, in thousandths
Modulation(speed, volume) == [speed |-> speed, volume |-> volume]

NoModulation == Modulation(0, 0)

\* README, Voice Modulation: the body state and the intensity choose the ratios
voice_modulation(st) ==
    Modulation(IF st.energy # NoEnergy /\ st.energy > 70 THEN 1200
               ELSE IF st.energy # NoEnergy /\ st.energy < 30 THEN 850
               ELSE 1000,
               IF st.tension # NoEnergy /\ st.tension > 60 THEN 1150
               ELSE IF st.intensity > 7000 THEN 1100
               ELSE 1000)

\* the synthesizer was never configured
NoConfig == Settings(-1, 0, 0, FALSE)

FrameKinds == {"LLMFullResponseStartFrame", "LLMFullResponseEndFrame",
               "TextFrame", "TTSTextFrame", "Frame"}

Directions == {"DOWNSTREAM", "UPSTREAM"}

IsText(fr) == fr.kind \in {"TextFrame", "TTSTextFrame"}

Frames == {[kind |-> k, prefix |-> ""] : k \in FrameKinds}

NoFrame == [kind |-> None, prefix |-> ""]

NoPush == [frame |-> NoFrame, direction |-> None]

Bump(n) == IF n < MaxCount THEN n + 1 ELSE MaxCount

\* the guard dropped: every text frame computes the directive
NeedsDirective_Always(applied) == TRUE

\* the guard inverted: the first text frame of a response goes on without a directive
NeedsDirective_Inverted(applied) == applied

\* line 685: the directive is computed for a text frame while the flag is unset
NeedsDirective(applied) == ~applied

\* await self.push_frame(frame, direction)
push_frame(fr, direction) ==
    /\ pushed' = [frame |-> fr, direction |-> direction]
    /\ forwarded' = IF inUtterance' /\ IsText(fr) /\ direction = "DOWNSTREAM"
                    THEN Bump(forwarded) ELSE forwarded

\* lines 721-732: the flag, the emotion log, the push of the frame
FinishTextFrame(fr, st) ==
    /\ emotion_applied_for_utterance' = TRUE
    /\ last_emotion' = IF log_emotions /\ st.primary_emotion # last_emotion
                       THEN st.primary_emotion ELSE last_emotion
    /\ inUtterance' = inUtterance
    /\ push_frame(fr, "DOWNSTREAM")
    /\ pc' = "idle"
    /\ frame' = NoFrame
    /\ state' = NoState

\* frames are taken whatever process_frame is doing
Accepts_Always == TRUE

\* the pipeline calls process_frame for the next frame when the call for the
\* frame before it has returned
Accepts == pc = "idle"

\* process_frame, up to its first suspension
ProcessFrame(fr, direction) ==
    /\ Accepts
    /\ UNCHANGED <<use_ssml, update_tts_config, log_emotions, last_emotion,
                   tts_config, state>>
    /\ IF direction = "DOWNSTREAM" /\ fr.kind = "LLMFullResponseStartFrame"
       THEN /\ in_llm_response' = TRUE
            /\ emotion_applied_for_utterance' = FALSE
            /\ inUtterance' = TRUE
            /\ computes' = 0
            /\ configs' = 0
            /\ pushed' = [frame |-> fr, direction |-> direction]
            /\ forwarded' = 0
            /\ UNCHANGED <<pc, frame>>
       ELSE IF direction = "DOWNSTREAM" /\ fr.kind = "LLMFullResponseEndFrame"
       THEN /\ in_llm_response' = FALSE
            /\ emotion_applied_for_utterance' = FALSE
            /\ inUtterance' = FALSE
            /\ push_frame(fr, direction)
            /\ UNCHANGED <<pc, frame, computes, configs>>
       ELSE IF direction = "DOWNSTREAM" /\ IsText(fr)
               /\ NeedsDirective(emotion_applied_for_utterance)
       THEN /\ pc' = "get_current_state"
            /\ frame' = fr
            /\ UNCHANGED <<in_llm_response, emotion_applied_for_utterance,
                           inUtterance, computes, configs, forwarded, pushed>>
       ELSE /\ inUtterance' = inUtterance
            /\ push_frame(fr, direction)
            /\ UNCHANGED <<in_llm_response, emotion_applied_for_utterance,
                           pc, frame, computes, configs>>

\* the SSML branch taken whatever use_ssml says
StateFetched_AlwaysTags(available, snapshot) ==
    /\ pc = "get_current_state"
    /\ LET st == get_current_state(available, snapshot)
           ssml_prefix == generate_ssml_prefix(st, TRUE)
           fr == IF ssml_prefix # ""
                 THEN [kind |-> frame.kind, prefix |-> ssml_prefix]
                 ELSE frame
       IN  /\ computes' = IF inUtterance THEN Bump(computes) ELSE computes
           /\ IF update_tts_config
              THEN /\ pc' = "update_tts_config"
                   /\ frame' = fr
                   /\ state' = st
                   /\ UNCHANGED <<emotion_applied_for_utterance, last_emotion,
                                  inUtterance, forwarded, pushed>>
              ELSE FinishTextFrame(fr, st)
    /\ UNCHANGED <<in_llm_response, use_ssml, update_tts_config, log_emotions,
                   tts_config, configs>>

\* lines 686-711: resumed with the emotional state; the SSML branch
StateFetched(available, snapshot) ==
    /\ pc = "get_current_state"
    /\ LET st == get_current_state(available, snapshot)
           ssml_prefix == generate_ssml_prefix(st, use_ssml)
           fr == IF use_ssml /\ ssml_prefix # ""
                 THEN [kind |-> frame.kind, prefix |-> ssml_prefix]
                 ELSE frame
       IN  /\ computes' = IF inUtterance THEN Bump(computes) ELSE computes
           /\ IF update_tts_config
              THEN /\ pc' = "update_tts_config"
                   /\ frame' = fr
                   /\ state' = st
                   /\ UNCHANGED <<emotion_applied_for_utterance, last_emotion,
                                  inUtterance, forwarded, pushed>>
              ELSE FinishTextFrame(fr, st)
    /\ UNCHANGED <<in_llm_response, use_ssml, update_tts_config, log_emotions,
                   tts_config, configs>>

\* the callback's exception not caught: it leaves process_frame
ConfigUpdated_Propagates(raised) ==
    /\ pc = "update_tts_config"
    /\ configs' = IF inUtterance THEN Bump(configs) ELSE configs
    /\ IF raised
       THEN /\ pc' = "idle"
            /\ frame' = NoFrame
            /\ state' = NoState
            /\ UNCHANGED <<tts_config, emotion_applied_for_utterance, last_emotion,
                           inUtterance, forwarded, pushed>>
       ELSE /\ tts_config' = generate_elevenlabs_config(state)
            /\ FinishTextFrame(frame, state)
    /\ UNCHANGED <<in_llm_response, use_ssml, update_tts_config, log_emotions,
                   computes>>

\* lines 714-732: resumed from the callback, which answered or raised
ConfigUpdated(raised) ==
    /\ pc = "update_tts_config"
    /\ tts_config' = IF raised THEN tts_config ELSE generate_elevenlabs_config(state)
    /\ configs' = IF inUtterance THEN Bump(configs) ELSE configs
    /\ FinishTextFrame(frame, state)
    /\ UNCHANGED <<in_llm_response, use_ssml, update_tts_config, log_emotions,
                   computes>>

\* the snapshots the directive functions are called with: every emotion, the
\* intensities around the preset thresholds and those of the plan's test cases,
\* the energies and tensions around the modifier thresholds, and no body state
Intensities == {0, 3499, 3500, 6999, 7000, 8000, 9000, 10000}

\* the body states: an energy and a tension in hundredths, each threshold met
\* from both sides
BodyStates == {<<29, 60>>, <<30, 61>>, <<70, 60>>, <<71, 61>>, <<100, 60>>, <<100, 61>>}

\* with a body state, or with none
Snapshots ==
    {Snapshot(e, i, b[1], b[2]) : e \in PrimaryEmotion, i \in Intensities, b \in BodyStates}
    \cup {Snapshot(e, i, NoEnergy, NoEnergy) : e \in PrimaryEmotion, i \in Intensities}

\* README, Two-Voice Strategy: voice A speaks for the partner, voice B for the AI itself
VoiceProfiles == {"partner", "self"}

\* the constructor options: every choice for the backend's behaviours
Options == IF side = "backend" THEN BOOLEAN ELSE {FALSE}

BackendInit ==
    /\ in_llm_response = FALSE
    /\ emotion_applied_for_utterance = FALSE
    /\ last_emotion = None
    /\ use_ssml \in Options
    /\ update_tts_config \in Options
    /\ log_emotions \in Options
    /\ pc = "idle"
    /\ frame = NoFrame
    /\ state = NoState
    /\ tts_config = NoConfig
    /\ inUtterance = FALSE
    /\ computes = 0
    /\ configs = 0
    /\ forwarded = 0
    /\ pushed = NoPush

\* the pipeline hands the processor one frame at a time
Backend(step) ==
    /\ side = "backend"
    /\ step
    /\ UNCHANGED <<side, ended, hookVars, mapperVars, sessionVars, registryVars, effectVars,
                   proxyVars, devVars>>

FrameArrives ==
    /\ ~ended
    /\ \E fr \in Frames, direction \in Directions : Backend(ProcessFrame(fr, direction))
StateArrives == \E available \in BOOLEAN, snapshot \in SourceStates :
                    Backend(StateFetched(available, snapshot))
ConfigReturns == \E raised \in BOOLEAN : Backend(ConfigUpdated(raised))

\* the session ends: the peer disconnects; process_frame takes no notice
Disconnect ==
    /\ side = "backend"
    /\ ~ended
    /\ ended' = TRUE
    /\ UNCHANGED <<side, hookVars, procVars, mapperVars, sessionVars, registryVars, effectVars,
                   proxyVars, devVars>>

\* the dict of the call before, kept in place of a new one
fresh_presets_Kept(previous) == previous

\* line 611: each call builds the dict anew
fresh_presets(previous) == emotion_presets

\* the directive functions are called with a snapshot
Mapper(call) ==
    /\ side = "mapper"
    /\ call
    /\ again' = (level # None /\ state' = state)
    /\ UNCHANGED <<side, ended, hookVars, voice_profile, sessionVars, registryVars, effectVars,
                   proxyVars, devVars>>
    /\ UNCHANGED <<in_llm_response, emotion_applied_for_utterance, last_emotion, use_ssml,
                   update_tts_config, log_emotions, pc, frame,
                   inUtterance, computes, configs, forwarded, pushed>>

\* lines 592-665: a call generate_elevenlabs_config(st); preset["style"] = ...
\* writes into the dict
CallGenerateConfig(st) ==
    LET table == fresh_presets(presets)
        key == IF st.primary_emotion \in DOMAIN table THEN st.primary_emotion
               ELSE "neutral"
        preset == body_modifiers(get(table, st.primary_emotion,
                                     table["neutral"])[intensity_level(st)], st)
    IN  /\ state' = st
        /\ level' = intensity_level(st)
        /\ presets' = [table EXCEPT ![key][intensity_level(st)] = preset]
        /\ tts_config' = preset

\* the speed and volume tags are chosen for the snapshot
CallVoiceModulation(st) == modulation' = voice_modulation(st)

\* lines 692-713: the directive of a snapshot is computed for both kinds of
\* synthesizer, the tags of the SSML prefix and the voice settings
GenerateConfig ==
    \E st \in Snapshots : Mapper(CallVoiceModulation(st) /\ CallGenerateConfig(st))

MapperInit ==
    /\ voice_profile \in (IF side = "mapper" THEN VoiceProfiles ELSE {"partner"})
    /\ level = None
    /\ presets = (IF side = "mapper" THEN emotion_presets ELSE <<>>)
    /\ modulation = NoModulation
    /\ again = FALSE

(* ------------------- two sessions, two processors -------------------- *)
Sessions == {"A", "B"}

\* lines 528-535: the processor run_bot constructs, with use_ssml=False, the
\* update_tts_config callback and log_emotions=True
NewProcessor ==
    [in_llm_response |-> FALSE, emotion_applied_for_utterance |-> FALSE,
     last_emotion |-> None, pc |-> "idle", frame |-> NoFrame, state |-> NoState,
     tts_config |-> NoConfig, pushed |-> NoFrame]

\* the frames of a response
ResponseFrames == {[kind |-> k, prefix |-> ""] :
                      k \in {"LLMFullResponseStartFrame", "LLMFullResponseEndFrame", "TextFrame"}}

\* the last logged emotion held once for all processors
log_emotion_Shared(ps, s, emotion) ==
    [t \in DOMAIN ps |-> [ps[t] EXCEPT !.last_emotion = emotion]]

\* lines 724-730: self._last_emotion = current_emotion
log_emotion(ps, s, emotion) == [ps EXCEPT ![s].last_emotion = emotion]

\* lines 669-686, 732: process_frame of the processor s, up to its first suspension
process_frame(ps, s, fr) ==
    IF fr.kind = "LLMFullResponseStartFrame"
    THEN [ps EXCEPT ![s].in_llm_response = TRUE,
                    ![s].emotion_applied_for_utterance = FALSE,
                    ![s].pushed = fr]
    ELSE IF fr.kind = "LLMFullResponseEndFrame"
    THEN [ps EXCEPT ![s].in_llm_response = FALSE,
                    ![s].emotion_applied_for_utterance = FALSE,
                    ![s].pushed = fr]
    ELSE IF IsText(fr) /\ NeedsDirective(ps[s].emotion_applied_for_utterance)
    THEN [ps EXCEPT ![s].pc = "get_current_state", ![s].frame = fr]
    ELSE [ps EXCEPT ![s].pushed = fr]

\* lines 686-713: resumed with the emotional state, the config is generated
state_fetched(ps, s, available, snapshot) ==
    [ps EXCEPT ![s].state = get_current_state(available, snapshot),
               ![s].pc = "update_tts_config"]

\* lines 714-732: resumed from the callback; the flag, the log, the push
config_updated(ps, s, raised) ==
    log_emotion([ps EXCEPT ![s].tts_config =
                               IF raised THEN @ ELSE generate_elevenlabs_config(ps[s].state),
                           ![s].emotion_applied_for_utterance = TRUE,
                           ![s].pushed = ps[s].frame,
                           ![s].pc = "idle",
                           ![s].frame = NoFrame,
                           ![s].state = NoState],
                s, ps[s].state.primary_emotion)

\* the processor of s with no other beside it
Solo(s) == [t \in {s} |-> alone[s]]

\* a step of the processor of session s, among the others and alone
Session(s, among, solo) ==
    /\ side = "sessions"
    /\ procs' = among
    /\ alone' = [alone EXCEPT ![s] = solo[s]]
    /\ UNCHANGED <<side, ended, hookVars, procVars, mapperVars, registryVars, effectVars,
                   proxyVars, devVars>>

SessionFrameArrives ==
    \E s \in Sessions, fr \in ResponseFrames :
        /\ procs[s].pc = "idle"
        /\ Session(s, process_frame(procs, s, fr), process_frame(Solo(s), s, fr))

SessionStateArrives ==
    \E s \in Sessions, available \in BOOLEAN, snapshot \in SourceStates :
        /\ procs[s].pc = "get_current_state"
        /\ Session(s, state_fetched(procs, s, available, snapshot),
                      state_fetched(Solo(s), s, available, snapshot))

SessionConfigReturns ==
    \E s \in Sessions, raised \in BOOLEAN :
        /\ procs[s].pc = "update_tts_config"
        /\ Session(s, config_updated(procs, s, raised), config_updated(Solo(s), s, raised))

\* a behaviour of another process holds no processors
SessionsInit ==
    /\ procs = [s \in (IF side = "sessions" THEN Sessions ELSE {}) |-> NewProcessor]
    /\ alone = procs

(* ------------------------- the voice profiles ------------------------- *)
\* contactId
ContactIds == {"+1", "+2", "+3"}

ProfileNames == {"Sarah", "Alex"}

\* a ContactVoiceProfile
ContactVoiceProfile(contactId, name) == [contactId |-> contactId, name |-> name]

\* no profile is stored for the contact
NoProfile == ContactVoiceProfile(None, None)

NoProfiles == [c \in {} |-> NoProfile]

\* a profile is stored only for a contact that has none
setVoiceProfile_KeepsFirst(reg, contactId, name) ==
    IF contactId \in DOMAIN reg THEN reg
    ELSE [c \in DOMAIN reg \cup {contactId} |->
             IF c = contactId THEN ContactVoiceProfile(contactId, name) ELSE reg[c]]

\* set(id, profile)
setVoiceProfile(reg, contactId, name) ==
    [c \in DOMAIN reg \cup {contactId} |->
        IF c = contactId THEN ContactVoiceProfile(contactId, name) ELSE reg[c]]

\* remove(id)
removeVoiceProfile(reg, contactId) == [c \in DOMAIN reg \ {contactId} |-> reg[c]]

\* get(id)
getVoiceProfile(reg, contactId) ==
    IF contactId \in DOMAIN reg THEN reg[contactId] ELSE NoProfile

Registry(operation) ==
    /\ side = "registry"
    /\ operation
    /\ UNCHANGED <<side, ended, hookVars, procVars, mapperVars, sessionVars, effectVars,
                   proxyVars, devVars>>

SetProfile(contactId, name) ==
    Registry(/\ registry' = setVoiceProfile(registry, contactId, name)
             /\ op' = [kind |-> "set", contactId |-> contactId]
             /\ got' = got)

RemoveProfile(contactId) ==
    Registry(/\ registry' = removeVoiceProfile(registry, contactId)
             /\ op' = [kind |-> "remove", contactId |-> contactId]
             /\ got' = got)

GetProfile(contactId) ==
    Registry(/\ got' = getVoiceProfile(registry, contactId)
             /\ op' = [kind |-> "get", contactId |-> contactId]
             /\ registry' = registry)

SetVoiceProfile == \E contactId \in ContactIds, name \in ProfileNames : SetProfile(contactId, name)
RemoveVoiceProfile == \E contactId \in ContactIds : RemoveProfile(contactId)
GetVoiceProfile == \E contactId \in ContactIds : GetProfile(contactId)

RegistryInit ==
    /\ registry = NoProfiles
    /\ got = NoProfile
    /\ op = [kind |-> None, contactId |-> None]

(* -------------------- the listener effect of the hook ----------------- *)
RTVIEvents == {"TransportStateChanged", "LocalAudioLevel", "UserStartedSpeaking",
               "UserStoppedSpeaking", "BotStartedSpeaking", "BotStoppedSpeaking",
               "UserTranscript", "BotTranscript", "BotLlmText"}

\* lines 55, 67, 143-149: the events the effect calls client.on for
on_events == {"TransportStateChanged", "LocalAudioLevel", "UserStartedSpeaking",
              "UserStoppedSpeaking", "BotStartedSpeaking", "BotStoppedSpeaking",
              "UserTranscript", "BotTranscript", "BotLlmText"}

\* the cleanup without its client.off(RTVIEvent.BotLlmText, handleBotLlmText)
off_events_NoLlmText ==
    {"TransportStateChanged", "LocalAudioLevel", "UserStartedSpeaking",
     "UserStoppedSpeaking", "BotStartedSpeaking", "BotStoppedSpeaking",
     "UserTranscript", "BotTranscript"}

\* lines 153-161: the events the cleanup calls client.off for
off_events == {"TransportStateChanged", "LocalAudioLevel", "UserStartedSpeaking",
               "UserStoppedSpeaking", "BotStartedSpeaking", "BotStoppedSpeaking",
               "UserTranscript", "BotTranscript", "BotLlmText"}

NoListeners == [e \in RTVIEvents |-> 0]

\* lines 44-149: the effect; without a client it returns at once
effect(has_client, ls) ==
    IF ~has_client THEN ls
    ELSE [e \in RTVIEvents |-> IF e \in on_events THEN ls[e] + 1 ELSE ls[e]]

\* lines 152-162: the cleanup the effect returned, if it got as far
cleanup(has_client, ls) ==
    IF ~has_client THEN ls
    ELSE [e \in RTVIEvents |-> IF e \in off_events /\ ls[e] > 0 THEN ls[e] - 1 ELSE ls[e]]

\* what the handlers write
stores == <<isUserSpeaking, isBotSpeaking, currentUserUtterance, currentBotUtterance,
            voiceState, conversation, gingerMessages>>

Effect(step) ==
    /\ side = "hook"
    /\ \A e \in RTVIEvents : listeners[e] <= MaxCount
    /\ step
    /\ UNCHANGED <<side, ended, hookVars, procVars, mapperVars, sessionVars, registryVars,
                   proxyVars, devVars>>

\* the component mounts: the effect runs
Mount ==
    Effect(/\ ~mounted
           /\ mounted' = TRUE
           /\ listeners' = effect(client, listeners)
           /\ frozen' = None
           /\ client' = client)

\* usePipecat() returns a client: the dependency changed, the effect runs again
ClientReady ==
    Effect(/\ ~client
           /\ client' = TRUE
           /\ listeners' = IF mounted THEN effect(TRUE, cleanup(FALSE, listeners))
                            ELSE listeners
           /\ UNCHANGED <<mounted, frozen>>)

\* a dependency changed with the client in place: the cleanup, then the effect
Rerun ==
    Effect(/\ mounted /\ client
           /\ listeners' = effect(client, cleanup(client, listeners))
           /\ UNCHANGED <<mounted, client, frozen>>)

\* the component unmounts: the cleanup runs
Unmount ==
    Effect(/\ mounted
           /\ mounted' = FALSE
           /\ listeners' = cleanup(client, listeners)
           /\ frozen' = stores
           /\ client' = client)

\* in the client's own behaviours the hook is mounted with a client throughout
EffectInit ==
    /\ mounted = (side # "hook")
    /\ client = (side # "hook")
    /\ listeners = effect(side # "hook", NoListeners)
    /\ frozen = None

(* ------------------------ the /api/offer proxy ------------------------ *)
\* requests the route handles side by side
Requests == {"r1", "r2"}

\* response.status of the backend's answer
BackendStatuses == {200, 201, 400, 404, 500, 503}

NoStatus == 0

\* response.ok
ok(status) == status >= 200 /\ status <= 299

\* NextResponse.json({ error, details }, { status }), or the data with no error
NextResponse(error, details, status) ==
    [error |-> error, details |-> details, status |-> status]

\* the try block without its catch: the error leaves the handler
catch_Rethrows(h, error) == [h EXCEPT !.pc = "done", !.thrown = TRUE]

\* lines 59-65, 97-103: catch (error)
catch(h, error) ==
    [h EXCEPT !.pc = "done",
              !.returned = Append(@, NextResponse("Failed to establish voice connection",
                                                  error, 500))]

\* lines 32, 70: const body = await request.json()
request_json(h, threw) ==
    IF threw THEN catch(h, "request.json") ELSE [h EXCEPT !.pc = "fetch"]

\* lines 34-42, 72-80: const response = await fetch(...); if (!response.ok)
fetch(h, threw, status) ==
    IF threw THEN catch(h, "fetch")
    ELSE [h EXCEPT !.response = status,
                   !.pc = IF ok(status) THEN "response.json" ELSE "response.text"]

\* lines 43-48, 81-86: the backend's error text returned with its status
response_text(h, threw) ==
    IF threw THEN catch(h, "response.text")
    ELSE [h EXCEPT !.pc = "done",
                   !.returned = Append(@, NextResponse("Failed to connect to voice backend",
                                                       "errorText", h.response))]

\* lines 51-58, 89-96: the backend's JSON returned
response_json(h, threw) ==
    IF threw THEN catch(h, "response.json")
    ELSE [h EXCEPT !.pc = "done",
                   !.returned = Append(@, NextResponse(None, None, 200))]

\* a step of the handler of request r
Proxy(r, at, after) ==
    /\ side = "proxy"
    /\ handlers[r].pc = at
    /\ handlers' = [handlers EXCEPT ![r] = after]
    /\ UNCHANGED <<side, ended, hookVars, procVars, mapperVars, sessionVars, registryVars,
                   effectVars, devVars>>

POST == \E r \in Requests :
            Proxy(r, "new", [handlers[r] EXCEPT !.method = "POST", !.pc = "request.json"])

PATCH == \E r \in Requests :
             Proxy(r, "new", [handlers[r] EXCEPT !.method = "PATCH", !.pc = "request.json"])

BodyRead == \E r \in Requests, threw \in BOOLEAN :
                Proxy(r, "request.json", request_json(handlers[r], threw))

Fetched == \E r \in Requests, threw \in BOOLEAN, status \in BackendStatuses :
               Proxy(r, "fetch", fetch(handlers[r], threw, status))

TextRead == \E r \in Requests, threw \in BOOLEAN :
                Proxy(r, "response.text", response_text(handlers[r], threw))

JsonParsed == \E r \in Requests, threw \in BOOLEAN :
                  Proxy(r, "response.json", response_json(handlers[r], threw))

\* the route has not been called for any request yet; a behaviour of another
\* process handles no request
ProxyInit ==
    handlers = [r \in (IF side = "proxy" THEN Requests ELSE {}) |->
                   [method |-> None, pc |-> "new", response |-> NoStatus,
                    returned |-> <<>>, thrown |-> FALSE]]

(* ------------------------------ dev.sh -------------------------------- *)
\* most processes the script starts in a behaviour
MaxProcs == 4

Services == {"backend", "frontend"}

\* no backend.pid / frontend.pid file
NoPid == 0

\* the .pid files and the processes started
System(files, processes) == [pidfile |-> files, spawned |-> processes]

\* kill -0 "$pid": a process with this PID exists
kill_0(processes, pid) ==
    pid \in 1..Len(processes) /\ processes[pid].status \in {"running", "signalled"}

\* kill "$pid": SIGTERM is sent and kill returns; the process ends when it ends
kill(processes, pid) == [processes EXCEPT ![pid].status = "signalled"]

\* lines 53-79 (start_backend), 81-112 (start_frontend)
start_service(sys, service) ==
    IF sys.pidfile[service] # NoPid /\ kill_0(sys.spawned, sys.pidfile[service])
    THEN sys
    ELSE LET processes == Append(sys.spawned, [service |-> service, status |-> "running"])
         IN  System([sys.pidfile EXCEPT ![service] = Len(processes)], processes)

\* lines 114-129 (stop_backend), 130-147 (stop_frontend)
stop_service(sys, service) ==
    IF sys.pidfile[service] # NoPid
    THEN IF kill_0(sys.spawned, sys.pidfile[service])
         THEN System([sys.pidfile EXCEPT ![service] = NoPid],
                     kill(sys.spawned, sys.pidfile[service]))
         ELSE System([sys.pidfile EXCEPT ![service] = NoPid], sys.spawned)
    ELSE sys

\* a step of the script, which leaves the files and the processes as `after`
Dev(at, after, then) ==
    /\ side = "dev"
    /\ script = at
    /\ Len(after.spawned) <= MaxProcs
    /\ pidfile' = after.pidfile
    /\ spawned' = after.spawned
    /\ script' = then
    /\ UNCHANGED <<side, ended, hookVars, procVars, mapperVars, sessionVars, registryVars,
                   effectVars, proxyVars>>

\* lines 206-212: ./dev.sh start, up to its sleep 2; check_dependencies may exit
Start ==
    \E dependencies \in BOOLEAN :
        IF dependencies
        THEN Dev("none", start_service(System(pidfile, spawned), "backend"), "sleep 2")
        ELSE Dev("none", System(pidfile, spawned), "none")

\* lines 212-223: the start command after its sleep 2
StartFrontend ==
    Dev("sleep 2", start_service(System(pidfile, spawned), "frontend"), "none")

\* lines 224-231: ./dev.sh stop
Stop ==
    Dev("none", stop_service(stop_service(System(pidfile, spawned), "frontend"), "backend"),
        "none")

\* lines 232-234: ./dev.sh restart, its $0 stop up to the sleep 1
Restart ==
    Dev("none", stop_service(stop_service(System(pidfile, spawned), "frontend"), "backend"),
        "sleep 1")

\* lines 234-236: the restart command after its sleep 1, $0 start up to its sleep 2
RestartStart ==
    \E dependencies \in BOOLEAN :
        IF dependencies
        THEN Dev("sleep 1", start_service(System(pidfile, spawned), "backend"), "sleep 2")
        ELSE Dev("sleep 1", System(pidfile, spawned), "none")

\* a process started by the script ends, by itself or on the signal it was sent
Exits ==
    \E pid \in 1..Len(spawned) :
        /\ kill_0(spawned, pid)
        /\ Dev(script, System(pidfile, [spawned EXCEPT ![pid].status = "exited"]), script)

DevInit ==
    /\ pidfile = [service \in Services |-> NoPid]
    /\ spawned = <<>>
    /\ script = "none"

\* every process as it is constructed
Constructed ==
    /\ ended = FALSE
    /\ ClientInit
    /\ BackendInit
    /\ MapperInit
    /\ SessionsInit
    /\ RegistryInit
    /\ EffectInit
    /\ ProxyInit
    /\ DevInit

Init ==
    /\ side \in {"client", "backend"}
    /\ Constructed

Next ==
    \/ UserStartedSpeaking
    \/ UserStoppedSpeaking
    \/ BotStartedSpeaking
    \/ BotStoppedSpeaking
    \/ UserTranscript
    \/ BotTranscript
    \/ BotLlmText
    \/ FrameArrives
    \/ StateArrives
    \/ ConfigReturns
    \/ Disconnect

Spec == Init /\ [][Next]_vars

\* the directive functions alone
MapperNext == GenerateConfig

MapperStart == side = "mapper" /\ Constructed

MapperSpec == MapperStart /\ [][MapperNext]_vars

\* two sessions side by side
SessionsNext ==
    \/ SessionFrameArrives
    \/ SessionStateArrives
    \/ SessionConfigReturns

SessionsStart == side = "sessions" /\ Constructed

SessionsSpec == SessionsStart /\ [][SessionsNext]_vars

\* the voice profiles alone
RegistryNext ==
    \/ SetVoiceProfile
    \/ RemoveVoiceProfile
    \/ GetVoiceProfile

RegistryStart == side = "registry" /\ Constructed

RegistrySpec == RegistryStart /\ [][RegistryNext]_vars

\* the hook through mounts and unmounts
HookNext ==
    \/ UserStartedSpeaking
    \/ UserStoppedSpeaking
    \/ BotStartedSpeaking
    \/ BotStoppedSpeaking
    \/ UserTranscript
    \/ BotTranscript
    \/ BotLlmText
    \/ Mount
    \/ ClientReady
    \/ Rerun
    \/ Unmount

HookStart == side = "hook" /\ Constructed

HookSpec == HookStart /\ [][HookNext]_vars

ProxyNext ==
    \/ POST
    \/ PATCH
    \/ BodyRead
    \/ Fetched
    \/ TextRead
    \/ JsonParsed

ProxyStart == side = "proxy" /\ Constructed

ProxySpec == ProxyStart /\ [][ProxyNext]_vars

DevNext ==
    \/ Start
    \/ StartFrontend
    \/ Stop
    \/ Restart
    \/ RestartStart
    \/ Exits

DevStart == side = "dev" /\ Constructed

DevSpec == DevStart /\ [][DevNext]_vars

\* the frame processor alone
BackendNext ==
    \/ FrameArrives
    \/ StateArrives
    \/ ConfigReturns
    \/ Disconnect

BackendStart == Init /\ side = "backend"

BackendSpec == BackendStart /\ [][BackendNext]_vars

\* The pipeline keeps delivering frames and the emotional-state fetch always
\* returns; nothing makes the update_tts_config callback return.
FairSpec == BackendSpec /\ WF_vars(FrameArrives) /\ WF_vars(StateArrives)

(* ------------------------------ claims -------------------------------- *)
StartFrameArrives ==
    Backend(ProcessFrame([kind |-> "LLMFullResponseStartFrame", prefix |-> ""], "DOWNSTREAM"))

EndFrameArrives ==
    Backend(ProcessFrame([kind |-> "LLMFullResponseEndFrame", prefix |-> ""], "DOWNSTREAM"))

\* conversation' is conversation with the one message m added at its end
Recorded(m) == conversation' = Append(conversation, m)

\* conversation' is conversation with one message of the role added at its end
RecordedBy(role) ==
    /\ Len(conversation') = Len(conversation) + 1
    /\ SubSeq(conversation', 1, Len(conversation)) = conversation
    /\ conversation'[Len(conversation')].role = role

\* C1: between a response start and its end the directive is computed at most
\* once, however many text frames arrive.
C1_DirectiveAtMostOncePerUtterance == computes <= 1

C1_Witness == inUtterance /\ forwarded >= 2 /\ computes = 1

\* C2: a text frame of a response is pushed on only after the directive of that
\* response was computed and its configuration call ended; while the directive
\* is being computed, no text frame of the response has gone on.
C2_DirectiveBeforeFirstChunk ==
    /\ (inUtterance /\ forwarded >= 1) =>
           /\ computes = 1
           /\ emotion_applied_for_utterance
           /\ update_tts_config => configs = 1
    /\ (inUtterance /\ pc # "idle") => forwarded = 0

C2_Witness ==
    /\ inUtterance /\ forwarded = 1 /\ computes = 1 /\ configs = 1
    /\ tts_config # NoConfig

\* C3 (as amended): after a BotStartedSpeaking the buffer is the concatenation
\* of the chunks received since, and the stop records one assistant message
\* whose text is that concatenation trimmed, or nothing when it is blank.
C3_ChunksAppendedAndTrimmedOnStop ==
    /\ [](afterStart => currentBotUtterance = sinceStart)
    /\ [][(afterStart /\ BotStoppedSpeaking) =>
              IF Blank(sinceStart) THEN conversation' = conversation
              ELSE Recorded([role |-> "assistant", content |-> trim(sinceStart)])]_vars

C3_Witness ==
    /\ lastEvent = "BotStoppedSpeaking" /\ prevPhase = "botSpeaking"
    /\ utterance = <<" ", "a">>
    /\ conversation = <<[role |-> "assistant", content |-> <<"a">>]>>

\* C3 (as claimed): the stop records one assistant message whose text is the
\* concatenation of the chunks, read for a concatenation that is not blank.
C3_RecordIsConcatenation ==
    [][(afterStart /\ BotStoppedSpeaking /\ ~Blank(sinceStart)) =>
          Recorded([role |-> "assistant", content |-> sinceStart])]_vars

\* C4: a stop event handled in phase idle changes nothing: the phase stays idle,
\* the buffers and the applied-flag keep their values, no message is recorded.
C4_StopWhileIdleIsNoOp ==
    [][(phase = "idle" /\ (UserStoppedSpeaking \/ BotStoppedSpeaking)) =>
          /\ phase' = "idle"
          /\ UNCHANGED <<currentUserUtterance, currentBotUtterance, conversation,
                         emotion_applied_for_utterance>>]_vars

NoBlankRecord == \A i \in 1..Len(conversation) : ~Blank(conversation[i].content)

\* C5: no recorded message has an empty or all-blank text, and a stop that finds
\* its buffer empty or blank records nothing.
C5_BlankUtteranceDiscarded ==
    /\ []NoBlankRecord
    /\ [][((UserStoppedSpeaking /\ Blank(currentUserUtterance))
             \/ (BotStoppedSpeaking /\ Blank(currentBotUtterance))) =>
              conversation' = conversation]_vars

C5_Witness ==
    /\ lastEvent = "BotStoppedSpeaking" /\ prevPhase = "botSpeaking"
    /\ utterance = <<" ">>
    /\ conversation = <<>>

\* C6: the history changes only by the stop that completes a turn (the speaker's
\* flag is set) with a text that is not blank, and then by one message of that
\* speaker added at the end.
C6_OneRecordPerCompletedTurn ==
    [][IF UserStoppedSpeaking /\ isUserSpeaking /\ ~Blank(currentUserUtterance)
         THEN RecordedBy("user")
       ELSE IF BotStoppedSpeaking /\ isBotSpeaking /\ ~Blank(currentBotUtterance)
         THEN RecordedBy("assistant")
       ELSE conversation' = conversation]_vars

\* C7: BotStartedSpeaking leaves the phase botSpeaking and the bot buffer empty
\* from any phase, the response start leaves the applied-flag unset, and the
\* message the next stop records holds the chunks received since the last start
\* and nothing of the text before it.
C7_BotStartResets ==
    /\ [][BotStartedSpeaking =>
              (phase' = "botSpeaking" /\ currentBotUtterance' = <<>>)]_vars
    /\ [][StartFrameArrives => ~emotion_applied_for_utterance']_vars
    /\ [][(afterStart /\ BotStoppedSpeaking /\ ~Blank(sinceStart)) =>
              /\ RecordedBy("assistant")
              /\ conversation'[Len(conversation')].content = trim(sinceStart)]_vars

C7_Witness ==
    /\ lastEvent = "BotStoppedSpeaking" /\ prevPhase = "botSpeaking"
    /\ restarted
    /\ utterance = <<"a">>
    /\ conversation = <<[role |-> "assistant", content |-> <<"a">>]>>

C9_UserStopFromUserSpeaking ==
    [][/\ (phase = "userSpeaking" /\ UserStoppedSpeaking) =>
              /\ phase' = "processing"
              /\ currentUserUtterance' = <<>>
              /\ IF Blank(currentUserUtterance) THEN conversation' = conversation
                 ELSE Recorded([role |-> "user", content |-> currentUserUtterance])
       /\ (phase # "processing" /\ phase' = "processing") => phase = "userSpeaking"]_vars

\* C10: BotStoppedSpeaking in phase botSpeaking moves to idle, records one
\* assistant message unless the text is blank and leaves the bot buffer empty;
\* the response end leaves the applied-flag unset.
C10_BotStopFromBotSpeaking ==
    /\ [][(phase = "botSpeaking" /\ BotStoppedSpeaking) =>
              /\ phase' = "idle"
              /\ currentBotUtterance' = <<>>
              /\ IF Blank(currentBotUtterance) THEN conversation' = conversation
                 ELSE RecordedBy("assistant")]_vars
    /\ [][EndFrameArrives => ~emotion_applied_for_utterance']_vars

C10_Witness ==
    /\ lastEvent = "BotStoppedSpeaking" /\ prevPhase = "botSpeaking"
    /\ phase = "idle"
    /\ ~Blank(utterance)
    /\ Len(conversation) = MaxHist
    /\ conversation[Len(conversation)].role = "assistant"

\* C11: UserStartedSpeaking, from any phase, leaves the phase userSpeaking and
\* the user buffer empty.
C11_UserStartClears ==
    [][UserStartedSpeaking =>
          (phase' = "userSpeaking" /\ currentUserUtterance' = <<>>)]_vars

Phases == {"idle", "userSpeaking", "processing", "botSpeaking"}

\* C13: the phase is one of the four; the steps of the full path and of the path
\* that skips processing lead where the paths say: user start from idle to
\* userSpeaking, user stop from there to processing, bot start from processing
\* or from userSpeaking to botSpeaking, bot stop from there to idle.
C13_BothPathsEndIdle ==
    /\ [](phase \in Phases /\ voiceState \in {"idle", "listening", "processing"})
    /\ [][/\ (phase = "idle" /\ UserStartedSpeaking) => phase' = "userSpeaking"
          /\ (phase = "userSpeaking" /\ UserStoppedSpeaking) => phase' = "processing"
          /\ (phase \in {"processing", "userSpeaking"} /\ BotStartedSpeaking) =>
                 phase' = "botSpeaking"
          /\ (phase = "botSpeaking" /\ BotStoppedSpeaking) => phase' = "idle"]_vars

\* the path that skips processing was taken: the user's flag was never cleared
C13_Witness ==
    /\ lastEvent = "BotStoppedSpeaking" /\ prevPhase = "botSpeaking"
    /\ phase = "idle"
    /\ isUserSpeaking
    /\ conversation # <<>>

\* C19: settings generated for the self voice are never those of the high preset.
C19_SelfVoiceBelowHigh ==
    (side = "mapper" /\ voice_profile = "self" /\ level # None) => level # "high"

NeutralSettings == Settings(500, 750, 0, FALSE)

\* C14: when the emotional-state source is unavailable at the first text frame,
\* the state used is the neutral one of intensity 0, the settings pushed are the
\* neutral ones, and the text frame goes on.
C14_NeutralFallback ==
    [][/\ \A snapshot \in SourceStates :
            Backend(StateFetched(FALSE, snapshot)) =>
                IF update_tts_config
                THEN /\ state' = NeutralState
                     /\ pc' = "update_tts_config"
                     /\ frame' = frame
                ELSE /\ pc' = "idle"
                     /\ emotion_applied_for_utterance'
                     /\ pushed' = [frame |-> frame, direction |-> "DOWNSTREAM"]
       /\ (Backend(ConfigUpdated(FALSE)) /\ state = NeutralState) =>
              /\ tts_config' = NeutralSettings
              /\ pushed' = [frame |-> frame, direction |-> "DOWNSTREAM"]]_vars

C14_Witness ==
    /\ side = "backend" /\ inUtterance /\ forwarded >= 1
    /\ tts_config = NeutralSettings
    /\ pushed.frame.prefix = ""

\* C15: while the session lasts, a text frame whose handling waits for the
\* directive is pushed on in the end: process_frame gets back to taking frames.
C15_DirectiveWaitBounded == (pc # "idle" /\ ~ended) ~> (pc = "idle" \/ ended)

C17_HandlersSerialized ==
    /\ [](pc # "idle" => (IsText(frame) /\ ~emotion_applied_for_utterance))
    /\ [][/\ FrameArrives => pc = "idle"
          /\ (pc # "idle" /\ procVars' # procVars) => (StateArrives \/ ConfigReturns)
          /\ (pc # "idle" /\ pc' = "idle") => emotion_applied_for_utterance']_vars

C17_Witness ==
    /\ side = "backend" /\ pc = "update_tts_config"
    /\ inUtterance /\ computes = 1 /\ forwarded = 0
    /\ ~emotion_applied_for_utterance

\* C18: when the update_tts_config callback raises, the text frame held is
\* pushed on as it is, the flag is set, the synthesizer's settings stay, and
\* process_frame is ready for the next frame.
C18_ConfigFailureCaught ==
    [][Backend(ConfigUpdated(TRUE)) =>
          /\ pushed' = [frame |-> frame, direction |-> "DOWNSTREAM"]
          /\ emotion_applied_for_utterance'
          /\ tts_config' = tts_config
          /\ pc' = "idle"]_vars

\* the one callback of the response raised, and a later text frame went on too
C18_Witness ==
    /\ side = "backend" /\ update_tts_config
    /\ inUtterance /\ computes = 1 /\ configs = 1 /\ forwarded = 2
    /\ tts_config = NoConfig
    /\ pc = "idle"

Levels == {"low", "medium", "high"}

\* the entry of the dict the snapshot selects
BasePreset == emotion_presets[state.primary_emotion][level]

\* a call of the directive functions has returned
Called == side = "mapper" /\ level # None

\* C21: the dict has an entry for each of the seven emotions and each of the
\* three presets, and a call returns the entry of the snapshot's own emotion
\* and preset, never the default for a missing one.
C21_LookupTotal ==
    /\ DOMAIN emotion_presets = PrimaryEmotion
    /\ \A e \in PrimaryEmotion : DOMAIN emotion_presets[e] = Levels
    /\ Called =>
           /\ state.primary_emotion \in DOMAIN presets
           /\ level \in DOMAIN presets[state.primary_emotion]
           /\ tts_config = presets[state.primary_emotion][level]
           /\ tts_config # NoConfig

C21_Witness ==
    /\ Called
    /\ state.primary_emotion = "neutral" /\ level = "high"
    /\ tts_config = NeutralSettings

\* the numbers of a voice_settings dict lie between 0 and 1
InDomain(c) ==
    /\ c.stability \in 0..1000
    /\ c.similarity_boost \in 0..1000
    /\ c.style \in 0..1000

\* C22: the settings returned have every number between 0 and 1, for every
\* entry and every body state; a style of 0.9 with energy 1.0 becomes 1.0.
C22_ModifiedFieldsInDomain ==
    Called =>
        /\ InDomain(tts_config)
        /\ (BasePreset.style = 900 /\ state.energy = 100) => tts_config.style = 1000

C22_Witness ==
    /\ Called
    /\ state.primary_emotion = "anger" /\ state.intensity = 9000 /\ state.energy = 100
    /\ BasePreset.style = 900
    /\ tts_config.style = 1000

C26_DirectiveIsFunctionOfSnapshot ==
    Called =>
        /\ tts_config = generate_elevenlabs_config(state)
        /\ modulation = voice_modulation(state)
        /\ \A e \in PrimaryEmotion, l \in Levels :
               (e # state.primary_emotion \/ l # level) =>
                   presets[e][l] = emotion_presets[e][l]

\* the same snapshot twice in a row, its style scaled once
C26_Witness ==
    /\ Called /\ again
    /\ state = Snapshot("joy", 3500, 100, 61)
    /\ tts_config = Settings(300, 750, 720, TRUE)

C24_UnsupportedKindIsNoOp ==
    /\ [](~use_ssml => (pushed.frame.prefix = "" /\ frame.prefix = ""))
    /\ [](~update_tts_config => (tts_config = NoConfig /\ pc # "update_tts_config"))
    /\ [][(StateArrives /\ ~use_ssml /\ ~update_tts_config) =>
              /\ pushed' = [frame |-> frame, direction |-> "DOWNSTREAM"]
              /\ pc' = "idle"
              /\ emotion_applied_for_utterance']_vars

\* neither kind is set up; the emotion was joy and the text went on as it came
C24_Witness ==
    /\ side = "backend" /\ ~use_ssml /\ ~update_tts_config
    /\ inUtterance /\ computes = 1 /\ forwarded = 1
    /\ log_emotions /\ last_emotion = "joy"
    /\ pushed.frame = [kind |-> "TextFrame", prefix |-> ""]
    /\ tts_config = NoConfig

C27_RegistryIsMap ==
    /\ [](\A c \in DOMAIN registry : registry[c].contactId = c)
    /\ [][/\ \A c \in ContactIds, name \in ProfileNames :
               SetProfile(c, name) =>
                   getVoiceProfile(registry', c) = ContactVoiceProfile(c, name)
          /\ \A c \in ContactIds :
               RemoveProfile(c) => getVoiceProfile(registry', c) = NoProfile
          /\ \A c \in ContactIds :
               GetProfile(c) => (got' = getVoiceProfile(registry, c) /\ registry' = registry)
          /\ \A c \in ContactIds :
               getVoiceProfile(registry', c) # getVoiceProfile(registry, c) =>
                   (op'.contactId = c /\ op'.kind \in {"set", "remove"})]_vars

\* a get returned the profile written last for a contact, another contact's
\* profile was removed, a third keeps its own
C27_Witness ==
    /\ side = "registry"
    /\ op = [kind |-> "remove", contactId |-> "+2"]
    /\ got = ContactVoiceProfile("+1", "Alex")
    /\ DOMAIN registry = {"+1", "+3"}
    /\ registry["+1"] = ContactVoiceProfile("+1", "Alex")
    /\ registry["+3"] = ContactVoiceProfile("+3", "Sarah")

\* C29: for each of the nine events the client holds one handler of the hook
\* while the hook is mounted with a client and none otherwise; the bot buffer
\* holds each chunk received since the start once; after an unmount the stores
\* stay as the unmount left them.
C29_OneHandlerSet ==
    /\ \A e \in RTVIEvents : listeners[e] = IF mounted /\ client THEN 1 ELSE 0
    /\ afterStart => currentBotUtterance = sinceStart
    /\ (side = "hook" /\ ~mounted /\ frozen # None) => stores = frozen

\* unmounted in the middle of a bot utterance, after a user turn was recorded
C29_Witness ==
    /\ side = "hook" /\ ~mounted /\ frozen # None
    /\ isBotSpeaking /\ currentBotUtterance = <<"a">>
    /\ conversation = <<[role |-> "user", content |-> <<"a">>]>>

\* C30: a BotTranscript event changes none of the buffers, the speaking flags,
\* the voice state and the histories.
C30_BotTranscriptIgnored ==
    [][BotTranscript => UNCHANGED stores]_vars

\* the transcript came after the LLM text of the utterance: the buffer holds
\* the text once
C30_Witness ==
    /\ lastEvent = "BotTranscript"
    /\ afterStart /\ sinceStart = <<"a">>
    /\ currentBotUtterance = <<"a">>

\* C33: the user's and the bot's speaking flags are never both set.
C33_NotBothSpeaking == ~(isUserSpeaking /\ isBotSpeaking)

\* C36: text received for the bot stays in the bot buffer until a
\* BotStoppedSpeaking, which records the buffer's trimmed text: no other event
\* takes received text out of the buffer.
C36_NoBotTextLost ==
    [][/\ lastEvent' # "BotStoppedSpeaking" =>
              /\ Len(currentBotUtterance') >= Len(currentBotUtterance)
              /\ SubSeq(currentBotUtterance', 1, Len(currentBotUtterance)) = currentBotUtterance
       /\ (BotStoppedSpeaking /\ hasText(currentBotUtterance)) =>
              Recorded(botMessage(currentBotUtterance))]_vars

\* C37: while the user's speaking flag is set the voice state is 'listening'.
C37_ListeningWhileUserSpeaks == isUserSpeaking => voiceState = "listening"

\* C34: process_frame waits for the emotional state or for the synthesizer's
\* configuration only inside an LLM response.
C34_DirectiveOnlyInResponse ==
    pc \in {"get_current_state", "update_tts_config"} => in_llm_response

\* C35: for the neutral emotion the settings generated are stability 0.5,
\* similarity_boost 0.75, style 0.0 and no speaker boost, at every intensity
\* and with every body state.
C35_NeutralIgnoresIntensityAndBody ==
    (Called /\ state.primary_emotion = "neutral") => tts_config = NeutralSettings

\* neutral at full intensity with a high-energy body state
C35_Witness ==
    /\ Called
    /\ state = Snapshot("neutral", 10000, 100, 61)
    /\ level = "high"
    /\ tts_config = NeutralSettings

\* C31: no error leaves a POST or PATCH handler; a handler that returned has
\* returned one response and one that has not has returned none; the response
\* is the backend's JSON with status 200 only after an OK answer, it carries
\* the backend's status after a non-OK answer whose text was read, and it has
\* status 500 when one of the handler's awaits threw.
C31_ProxyAnswersEveryRequest ==
    \A r \in DOMAIN handlers :
        LET h == handlers[r] IN
        /\ ~h.thrown
        /\ Len(h.returned) = IF h.pc = "done" THEN 1 ELSE 0
        /\ h.pc = "done" =>
               LET reply == h.returned[1] IN
               /\ reply.error = None =>
                      (ok(h.response) /\ reply.status = 200)
               /\ reply.error = "Failed to connect to voice backend" =>
                      (h.response # NoStatus /\ ~ok(h.response)
                       /\ reply.status = h.response)
               /\ reply.error = "Failed to establish voice connection" =>
                      /\ reply.status = 500
                      /\ reply.details \in {"request.json", "fetch", "response.text",
                                            "response.json"}
               /\ (h.response # NoStatus /\ ~ok(h.response)
                   /\ reply.details # "response.text") => reply.status = h.response
               /\ (ok(h.response) /\ reply.details # "response.json") =>
                      reply.error = None

\* a POST answered with the backend's 503, next to a PATCH whose fetch threw
C31_Witness ==
    /\ side = "proxy"
    /\ handlers["r1"].method = "POST" /\ handlers["r1"].pc = "done"
    /\ handlers["r1"].returned =
           <<NextResponse("Failed to connect to voice backend", "errorText", 503)>>
    /\ handlers["r2"].method = "PATCH" /\ handlers["r2"].pc = "done"
    /\ handlers["r2"].returned =
           <<NextResponse("Failed to establish voice connection", "fetch", 500)>>

\* C32: at most one backend process started by the script is alive.
C32_AtMostOneBackend ==
    Cardinality({pid \in 1..Len(spawned) :
                    spawned[pid].service = "backend" /\ kill_0(spawned, pid)}) <= 1
====
